---- MODULE Spec2Model ----
(***************************************************************************)
(* Model of sphinx_immaterial/apidoc_formatting.py: the HTMLTranslatorMixin *)
(* visit/depart hooks and the setup routine.                               *)
(*                                                                         *)
(* A string is a sequence of atoms (each atom a run of characters, every   *)
(* parenthesis an atom of its own); the render buffer self.body is a       *)
(* sequence of strings.  The host translator (the class the mixin is mixed *)
(* into) owns the traversal: it starts a render pass over a document,      *)
(* invokes the hooks in document order and collects the buffer at the end. *)
(***************************************************************************)
EXTENDS Integers, Sequences, FiniteSets, TLC

VARIABLES
    doc,                    \* the attributes of the document being rendered (never written)
    classes,                \* node["classes"] of the desc and the desc_signature node
    desc_signature_classes, \* sphinx.addnodes.desc_signature.classes (global)
    setupCalls,             \* number of setup() calls made so far
    setupRet,               \* <<>> or <<the mapping returned by the last setup()>>
    body,                   \* self.body of the translator of the current pass
    pc,                     \* the hook the traversal invokes next
    paramIdx,               \* parameters of the parameter list already departed
    rendered                \* the finished buffers, one per render pass

vars == <<doc, classes, desc_signature_classes, setupCalls, setupRet,
          body, pc, paramIdx, rendered>>

----------------------------------------------------------------------------
(* Bounds *)

MaxPasses == 2
MaxSetup == 2
MaxParams == 2

(* Program constant *)
SIGNATURE_WRAP_LENGTH == 70

----------------------------------------------------------------------------
(* Strings *)

Last(s) == s[Len(s)]
Front(s) == SubSeq(s, 1, Len(s) - 1)
Range(s) == {s[i] : i \in 1..Len(s)}
Text(n) == [i \in 1..n |-> "x"]

\* Faulty variant of str_replace: only the first occurrence is replaced.
RECURSIVE str_replace_first(_, _, _)
str_replace_first(s, old, new) ==
    IF s = <<>> THEN <<>>
    ELSE IF Head(s) = old THEN new \o Tail(s)
    ELSE <<Head(s)>> \o str_replace_first(Tail(s), old, new)

\* str.replace(old, new) with old a single character: one pass, left to
\* right, every occurrence, the replacement not rescanned.
RECURSIVE str_replace(_, _, _)
str_replace(s, old, new) ==
    IF s = <<>> THEN <<>>
    ELSE (IF Head(s) = old THEN new ELSE <<Head(s)>>)
         \o str_replace(Tail(s), old, new)

\* body[-1] = value
SetLast(b, value) == [b EXCEPT ![Len(b)] = value]

----------------------------------------------------------------------------
(* What the host emits *)

\* self.starttag(node, tagname, suffix="", CLASS=cls)
starttag(tagname, cls) == <<"<", tagname, " class=\"", cls, "\">">>

\* self.add_fignumber(target), self.add_permalink_ref(target, title)
add_fignumber(target) == <<"fignumber", target>>
add_permalink_ref(target, title) == <<"permalink", target, title>>

\* super().visit_desc(node), super().visit_desc_signature(node): the start
\* tag carries the classes the node has when the host is invoked.
HostVisitDesc(cls) == <<"<dl class=\"">> \o cls \o <<"\">">>
HostVisitDescSignature(cls) == <<"<dt class=\"">> \o cls \o <<"\">">>

\* super().visit_desc_parameterlist(node) / depart: one buffer entry.
HostVisitParameterlist(style) ==
    IF style = "plain" THEN <<"<span class=\"sig-paren\">", "(", "</span>">>
    ELSE <<"(", ")", "<span>", "(", "</span>">>
HostDepartParameterlist(style) ==
    IF style = "plain" THEN <<"<span class=\"sig-paren\">", ")", "</span>">>
    ELSE <<")", "(", "<span>", ")", "</span>">>

HostVisitParameter == <<"<em class=\"sig-param\">">>
HostDepartParameter == <<"</em>">>
ParamText == <<"param">>

HostVisitCaption == <<"<p class=\"caption\">">>
HostDepartCaption == <<"</p>\n">>
CaptionText == <<"caption">>

HostDepartFieldName == <<"</th>">>
HostDepartTerm == <<"</dt>">>

----------------------------------------------------------------------------
(* Documents *)

DefaultSigClasses == <<"sig", "sig-object">>
DefaultParens == << <<"(">>, <<")">> >>

ParensChoices ==
    { [has |-> FALSE, val |-> DefaultParens],
      [has |-> TRUE,  val |-> << <<"[">>, <<"]">> >>],
      [has |-> TRUE,  val |-> << <<"(", "(">>, <<")", ")">> >>] }

SigTextLens == {0, SIGNATURE_WRAP_LENGTH - 1, SIGNATURE_WRAP_LENGTH,
                SIGNATURE_WRAP_LENGTH + 1}

NoCaption == [parentKind |-> "other", literal_block |-> FALSE, toctree |-> FALSE]

ApiDocs ==
    { [kind |-> "api", sigText |-> Text(n), parens |-> p, hostStyle |-> h,
       nParams |-> k, caption |-> NoCaption, termHasIds |-> FALSE] :
        n \in SigTextLens, p \in ParensChoices, h \in {"plain", "mixed"},
        k \in 0..MaxParams }

CaptionDocs ==
    { [kind |-> "caption", sigText |-> <<>>, parens |-> [has |-> FALSE, val |-> DefaultParens],
       hostStyle |-> "plain", nParams |-> 0,
       caption |-> [parentKind |-> pk, literal_block |-> lb, toctree |-> tt],
       termHasIds |-> FALSE] :
        pk \in {"container", "figure", "other"}, lb \in BOOLEAN, tt \in BOOLEAN }

FieldDocs ==
    { [kind |-> "fields", sigText |-> <<>>, parens |-> [has |-> FALSE, val |-> DefaultParens],
       hostStyle |-> "plain", nParams |-> 0, caption |-> NoCaption,
       termHasIds |-> ids] : ids \in BOOLEAN }

Docs == ApiDocs \cup CaptionDocs \cup FieldDocs

\* node.get("parens", ("(", ")"))
NodeGetParens(d) == IF d.parens.has THEN d.parens.val ELSE DefaultParens

\* isinstance(node.parent, docutils.nodes.container) and node.parent.get("literal_block")
IsLiteralBlockContainer(d) ==
    d.caption.parentKind = "container" /\ d.caption.literal_block

FirstHook(d) ==
    CASE d.kind = "api" -> "visit_desc"
      [] d.kind = "caption" -> "visit_caption"
      [] OTHER -> "depart_field_name"

----------------------------------------------------------------------------
(* Initial state *)

Init ==
    /\ doc \in Docs
    /\ classes \in { [desc |-> d, sig |-> s] :
                        d \in { <<>>, <<"py", "function">> },
                        s \in { DefaultSigClasses,
                                DefaultSigClasses \o <<"highlight">> } }
    /\ desc_signature_classes = DefaultSigClasses
    /\ setupCalls = 0
    /\ setupRet = <<>>
    /\ body = <<>>
    /\ pc = "idle"
    /\ paramIdx = 0
    /\ rendered = <<>>

----------------------------------------------------------------------------
(* The host's traversal *)

BeginPass ==
    /\ pc = "idle"
    /\ Len(rendered) < MaxPasses
    /\ body' = <<>>
    /\ pc' = FirstHook(doc)
    /\ paramIdx' = 0
    /\ UNCHANGED <<doc, classes, desc_signature_classes, setupCalls, setupRet, rendered>>

EndPass ==
    /\ pc = "done"
    /\ rendered' = Append(rendered, body)
    /\ pc' = "idle"
    /\ UNCHANGED <<doc, classes, desc_signature_classes, setupCalls, setupRet,
                   body, paramIdx>>

host_param_content ==
    /\ pc = "param_content"
    /\ body' = Append(body, ParamText)
    /\ pc' = "depart_desc_parameter"
    /\ UNCHANGED <<doc, classes, desc_signature_classes, setupCalls, setupRet,
                   paramIdx, rendered>>

host_caption_content ==
    /\ pc = "caption_content"
    /\ body' = Append(body, CaptionText)
    /\ pc' = "depart_caption"
    /\ UNCHANGED <<doc, classes, desc_signature_classes, setupCalls, setupRet,
                   paramIdx, rendered>>

----------------------------------------------------------------------------
(* HTMLTranslatorMixin *)

SpanClose == <<"</span>">>
SigParamOpen == <<"<span class=\"sig-param-decl\">">>
DivOpen == <<"<div class=\"code-block-caption highlight\">">>
DivClose == <<"</div>\n">>

\* Faulty variant of visit_desc: the host is invoked before the class is appended.
visit_desc_hostFirst ==
    /\ pc = "visit_desc"
    /\ body' = Append(body, HostVisitDesc(classes.desc))
    /\ classes' = [classes EXCEPT !.desc = Append(@, "objdesc")]
    /\ pc' = "visit_desc_signature"
    /\ UNCHANGED <<doc, desc_signature_classes, setupCalls, setupRet, paramIdx, rendered>>

visit_desc ==
    /\ pc = "visit_desc"
    /\ classes' = [classes EXCEPT !.desc = Append(@, "objdesc")]
    /\ body' = Append(body, HostVisitDesc(classes'.desc))
    /\ pc' = "visit_desc_signature"
    /\ UNCHANGED <<doc, desc_signature_classes, setupCalls, setupRet, paramIdx, rendered>>

\* starttag(node, ...) is called for a node that carries no classes of its own.
visit_desc_type ==
    /\ pc = "visit_desc_type"
    /\ body' = Append(body, starttag("span", "desctype"))
    /\ pc' = "depart_desc_type"
    /\ UNCHANGED <<doc, classes, desc_signature_classes, setupCalls, setupRet,
                   paramIdx, rendered>>

depart_desc_type ==
    /\ pc = "depart_desc_type"
    /\ body' = Append(body, SpanClose)
    /\ pc' = "visit_desc_parameterlist"
    /\ UNCHANGED <<doc, classes, desc_signature_classes, setupCalls, setupRet,
                   paramIdx, rendered>>

\* Faulty variant of visit_desc_signature: wraps from SIGNATURE_WRAP_LENGTH on.
visit_desc_signature_wrapAtLimit ==
    /\ pc = "visit_desc_signature"
    /\ LET node_text == doc.sigText
           withHighlight == Append(classes.sig, "highlight")
           cls == IF Len(node_text) >= SIGNATURE_WRAP_LENGTH
                  THEN Append(withHighlight, "sig-wrap")
                  ELSE withHighlight
       IN /\ classes' = [classes EXCEPT !.sig = cls]
          /\ body' = Append(body, HostVisitDescSignature(cls))
    /\ pc' = "visit_desc_type"
    /\ UNCHANGED <<doc, desc_signature_classes, setupCalls, setupRet, paramIdx, rendered>>

\* Faulty variant of visit_desc_signature: appends to the node type's global list.
visit_desc_signature_global ==
    /\ pc = "visit_desc_signature"
    /\ desc_signature_classes' = Append(desc_signature_classes, "highlight")
    /\ body' = Append(body, HostVisitDescSignature(classes.sig))
    /\ pc' = "visit_desc_type"
    /\ UNCHANGED <<doc, classes, setupCalls, setupRet, paramIdx, rendered>>

visit_desc_signature ==
    /\ pc = "visit_desc_signature"
    /\ LET node_text == doc.sigText
           withHighlight == Append(classes.sig, "highlight")
           cls == IF Len(node_text) > SIGNATURE_WRAP_LENGTH
                  THEN Append(withHighlight, "sig-wrap")
                  ELSE withHighlight
       IN /\ classes' = [classes EXCEPT !.sig = cls]
          /\ body' = Append(body, HostVisitDescSignature(cls))
    /\ pc' = "visit_desc_type"
    /\ UNCHANGED <<doc, desc_signature_classes, setupCalls, setupRet, paramIdx, rendered>>

visit_desc_parameterlist ==
    /\ pc = "visit_desc_parameterlist"
    /\ LET hosted == Append(body, HostVisitParameterlist(doc.hostStyle))
           open_paren == NodeGetParens(doc)[1]
       IN body' = SetLast(hosted, str_replace(Last(hosted), "(", open_paren))
    /\ pc' = IF doc.nParams > 0 THEN "visit_desc_parameter"
             ELSE "depart_desc_parameterlist"
    /\ UNCHANGED <<doc, classes, desc_signature_classes, setupCalls, setupRet,
                   paramIdx, rendered>>

depart_desc_parameterlist ==
    /\ pc = "depart_desc_parameterlist"
    /\ LET hosted == Append(body, HostDepartParameterlist(doc.hostStyle))
           close_paren == NodeGetParens(doc)[2]
       IN body' = SetLast(hosted, str_replace(Last(hosted), ")", close_paren))
    /\ pc' = "done"
    /\ UNCHANGED <<doc, classes, desc_signature_classes, setupCalls, setupRet,
                   paramIdx, rendered>>

visit_desc_parameter ==
    /\ pc = "visit_desc_parameter"
    /\ body' = body \o <<SigParamOpen, HostVisitParameter>>
    /\ pc' = "param_content"
    /\ UNCHANGED <<doc, classes, desc_signature_classes, setupCalls, setupRet,
                   paramIdx, rendered>>

\* Faulty variant of depart_desc_parameter: the span is closed before the host departs.
depart_desc_parameter_closeFirst ==
    /\ pc = "depart_desc_parameter"
    /\ body' = body \o <<SpanClose, HostDepartParameter>>
    /\ paramIdx' = paramIdx + 1
    /\ pc' = IF paramIdx + 1 < doc.nParams THEN "visit_desc_parameter"
             ELSE "depart_desc_parameterlist"
    /\ UNCHANGED <<doc, classes, desc_signature_classes, setupCalls, setupRet, rendered>>

depart_desc_parameter ==
    /\ pc = "depart_desc_parameter"
    /\ body' = body \o <<HostDepartParameter, SpanClose>>
    /\ paramIdx' = paramIdx + 1
    /\ pc' = IF paramIdx + 1 < doc.nParams THEN "visit_desc_parameter"
             ELSE "depart_desc_parameterlist"
    /\ UNCHANGED <<doc, classes, desc_signature_classes, setupCalls, setupRet, rendered>>

depart_field_name ==
    /\ pc = "depart_field_name"
    /\ body' = body \o <<add_permalink_ref("node", "Permalink to this headline"),
                         HostDepartFieldName>>
    /\ pc' = "depart_term"
    /\ UNCHANGED <<doc, classes, desc_signature_classes, setupCalls, setupRet,
                   paramIdx, rendered>>

depart_term ==
    /\ pc = "depart_term"
    /\ body' = body
               \o (IF doc.termHasIds
                   THEN <<add_permalink_ref("node", "Permalink to this definition")>>
                   ELSE <<>>)
               \o <<HostDepartTerm>>
    /\ pc' = "done"
    /\ UNCHANGED <<doc, classes, desc_signature_classes, setupCalls, setupRet,
                   paramIdx, rendered>>

\* Faulty variant of visit_caption: the span never gets the "filename" class.
visit_caption_noFilename ==
    /\ pc = "visit_caption"
    /\ LET opening == IF IsLiteralBlockContainer(doc) THEN DivOpen ELSE HostVisitCaption
       IN body' = body \o <<opening, add_fignumber("parent"),
                            starttag("span", "caption-text")>>
    /\ pc' = "caption_content"
    /\ UNCHANGED <<doc, classes, desc_signature_classes, setupCalls, setupRet,
                   paramIdx, rendered>>

\* The caption node carries no classes of its own, so the class of the span
\* start tag is the one passed to starttag.
visit_caption ==
    /\ pc = "visit_caption"
    /\ LET lb == IsLiteralBlockContainer(doc)
           attributes == IF lb THEN "caption-text filename" ELSE "caption-text"
           opening == IF lb THEN DivOpen ELSE HostVisitCaption
       IN body' = body \o <<opening, add_fignumber("parent"),
                            starttag("span", attributes)>>
    /\ pc' = "caption_content"
    /\ UNCHANGED <<doc, classes, desc_signature_classes, setupCalls, setupRet,
                   paramIdx, rendered>>

\* Faulty variant of depart_caption: "toctree" is tested before the figure.
depart_caption_toctreeFirst ==
    /\ pc = "depart_caption"
    /\ LET c == doc.caption
           lb == IsLiteralBlockContainer(doc)
           ending == IF c.parentKind # "container" /\ ~c.literal_block
                     THEN <<SpanClose>> ELSE <<>>
           permalink ==
               IF lb THEN <<add_permalink_ref("parent", "Permalink to this code"),
                            SpanClose>>
               ELSE IF c.toctree
               THEN <<add_permalink_ref("parent.parent", "Permalink to this toctree")>>
               ELSE IF c.parentKind = "figure"
               THEN <<add_permalink_ref("parent", "Permalink to this image")>>
               ELSE <<>>
           closing == IF lb THEN <<DivClose>> ELSE <<HostDepartCaption>>
       IN body' = body \o ending \o permalink \o closing
    /\ pc' = "done"
    /\ UNCHANGED <<doc, classes, desc_signature_classes, setupCalls, setupRet,
                   paramIdx, rendered>>

depart_caption ==
    /\ pc = "depart_caption"
    /\ LET c == doc.caption
           lb == IsLiteralBlockContainer(doc)
           ending == IF c.parentKind # "container" /\ ~c.literal_block
                     THEN <<SpanClose>> ELSE <<>>
           permalink ==
               IF lb THEN <<add_permalink_ref("parent", "Permalink to this code"),
                            SpanClose>>
               ELSE IF c.parentKind = "figure"
               THEN <<add_permalink_ref("parent", "Permalink to this image")>>
               ELSE IF c.toctree
               THEN <<add_permalink_ref("parent.parent", "Permalink to this toctree")>>
               ELSE <<>>
           closing == IF lb THEN <<DivClose>> ELSE <<HostDepartCaption>>
       IN body' = body \o ending \o permalink \o closing
    /\ pc' = "done"
    /\ UNCHANGED <<doc, classes, desc_signature_classes, setupCalls, setupRet,
                   paramIdx, rendered>>

----------------------------------------------------------------------------
(* setup *)

\* The extension loader calls setup between renders, once per application.
setup ==
    /\ pc = "idle"
    /\ setupCalls < MaxSetup
    /\ desc_signature_classes' = Append(desc_signature_classes, "highlight")
    /\ setupRet' = << [parallel_read_safe |-> TRUE, parallel_write_safe |-> TRUE] >>
    /\ setupCalls' = setupCalls + 1
    /\ UNCHANGED <<doc, classes, body, pc, paramIdx, rendered>>

----------------------------------------------------------------------------

Next ==
    \/ BeginPass
    \/ EndPass
    \/ host_param_content
    \/ host_caption_content
    \/ visit_desc
    \/ visit_desc_type
    \/ depart_desc_type
    \/ visit_desc_signature
    \/ visit_desc_parameterlist
    \/ depart_desc_parameterlist
    \/ visit_desc_parameter
    \/ depart_desc_parameter
    \/ depart_field_name
    \/ depart_term
    \/ visit_caption
    \/ depart_caption
    \/ setup

Spec == Init /\ [][Next]_vars

----------------------------------------------------------------------------
(* Reading the render buffer: the stack of elements left open after the   *)
(* first n entries, or Unbalanced when an end tag met no matching start.  *)

Unbalanced == <<"#unbalanced">>

OpenKind(e) ==
    CASE e = DivOpen -> "div"
      [] e = SigParamOpen -> "sig-param-decl"
      [] e = HostVisitCaption -> "host-caption"
      [] e = HostVisitParameter -> "host-param"
      [] e \in {starttag("span", c) :
                  c \in {"desctype", "caption-text", "caption-text filename"}} -> "span"
      [] OTHER -> ""

CloseKinds(e) ==
    CASE e = SpanClose -> {"span", "sig-param-decl"}
      [] e = DivClose -> {"div"}
      [] e = HostDepartCaption -> {"host-caption"}
      [] e = HostDepartParameter -> {"host-param"}
      [] OTHER -> {}

Push(stack, e) ==
    IF stack = Unbalanced THEN Unbalanced
    ELSE IF OpenKind(e) # "" THEN Append(stack, OpenKind(e))
    ELSE IF CloseKinds(e) = {} THEN stack
    ELSE IF stack # <<>> /\ Last(stack) \in CloseKinds(e) THEN Front(stack)
    ELSE Unbalanced

RECURSIVE StackAfter(_, _)
StackAfter(b, n) == IF n = 0 THEN <<>> ELSE Push(StackAfter(b, n - 1), b[n])

\* The entries a step appended to the buffer.
Appended == SubSeq(body', Len(body) + 1, Len(body'))
KeepsPrefix == Len(body') >= Len(body) /\ SubSeq(body', 1, Len(body)) = body

IsPermalink(e) == e[1] = "permalink"

\* Every occurrence of the character old in s replaced by new.
RECURSIVE EveryReplaced(_, _, _)
EveryReplaced(s, old, new) ==
    IF s = <<>> THEN <<>>
    ELSE EveryReplaced(Front(s), old, new)
         \o (IF Last(s) = old THEN new ELSE <<Last(s)>>)

Count(s, x) == Cardinality({i \in 1..Len(s) : s[i] = x})

----------------------------------------------------------------------------
(* Claims *)

\* C1: visit_desc_signature appends "highlight" to the signature node's
\* classes, then "sig-wrap" exactly when the node text is longer than
\* SIGNATURE_WRAP_LENGTH, and only then invokes the host's
\* visit_desc_signature, which renders the node with the new classes.
C1_SignatureClasses ==
    [][(pc = "visit_desc_signature" /\ pc' # pc) =>
        /\ classes'.sig =
             classes.sig \o <<"highlight">>
             \o (IF Len(doc.sigText) > SIGNATURE_WRAP_LENGTH
                 THEN <<"sig-wrap">> ELSE <<>>)
        /\ classes'.desc = classes.desc
        /\ body' = Append(body, HostVisitDescSignature(classes'.sig))]_vars

\* A signature of exactly SIGNATURE_WRAP_LENGTH characters has been visited:
\* it got "highlight" and no "sig-wrap".
C1_Witness ==
    /\ pc = "visit_desc_type"
    /\ Len(doc.sigText) = SIGNATURE_WRAP_LENGTH
    /\ Last(classes.sig) = "highlight"
    /\ "sig-wrap" \notin Range(classes.sig)
    /\ Last(body) = HostVisitDescSignature(classes.sig)

\* C2: visit_desc appends exactly "objdesc" to the end of the node's
\* classes, keeps the earlier classes in order, and then invokes the host's
\* visit_desc once, which sees "objdesc" among the classes.
C2_DescClasses ==
    [][(pc = "visit_desc" /\ pc' # pc) =>
        /\ classes'.desc = Append(classes.desc, "objdesc")
        /\ classes'.sig = classes.sig
        /\ body' = Append(body, HostVisitDesc(classes'.desc))
        /\ "objdesc" \in Range(Last(body'))]_vars

C2_Witness ==
    /\ pc = "visit_desc_signature"
    /\ rendered = <<>>
    /\ classes.desc = <<"py", "function", "objdesc">>
    /\ body = <<HostVisitDesc(<<"py", "function", "objdesc">>)>>

\* C3 (as claimed): every render pass over the same tree emits the same
\* output as the first one; no class accumulates on a node across passes.
C3_PassesAgree ==
    \A i \in DOMAIN rendered : \A j \in DOMAIN rendered : rendered[i] = rendered[j]

\* C4 (as claimed): after any sequence of setup calls and renders the global
\* class list of the signature node type is what it was before.
C4_GlobalUnchanged == desc_signature_classes = DefaultSigClasses

\* C4 (amended): no visit/depart hook writes the global class list of the
\* signature node type; only setup does, appending one "highlight" per call,
\* so the list is always the original one followed by one "highlight" for
\* every setup call made so far.
C4_OnlySetupWritesGlobal ==
    desc_signature_classes =
        DefaultSigClasses \o [i \in 1..setupCalls |-> "highlight"]

\* setup has run and, after it, a whole API description was rendered.
C4_Witness ==
    /\ setupCalls >= 1
    /\ doc.kind = "api"
    /\ pc = "done"
    /\ rendered # <<>>

\* C5 (as claimed): after any call of setup the returned mapping has both
\* flags TRUE and the global class list holds "highlight" exactly once.
C5_HighlightOnce ==
    setupCalls >= 1 =>
        /\ setupRet = << [parallel_read_safe |-> TRUE, parallel_write_safe |-> TRUE] >>
        /\ Count(desc_signature_classes, "highlight") = 1

\* C6 (as claimed): for every kind of parent, once the caption is departed
\* every tag opened for it is closed, in reverse order, none left open or
\* closed twice, and the caption's content lies within the mixin's span.
C6_CaptionBalanced ==
    (doc.kind = "caption" /\ pc = "done") =>
        /\ StackAfter(body, Len(body)) = <<>>
        /\ \A i \in 1..Len(body) :
              body[i] = CaptionText =>
                  LET open == StackAfter(body, i - 1)
                  IN open # <<>> /\ Last(open) = "span"

\* C7: in the buffer of an API description every sig-param-decl span is
\* opened right before the host's visit_desc_parameter output and closed
\* right after the host's depart_desc_parameter output, spans are never
\* nested, all of them are closed once their parameter is departed, and
\* everything the host emits for a parameter lies inside that span.
C7_ParameterSpans ==
    doc.kind = "api" =>
        LET n == Len(body)
            inParam == pc \in {"param_content", "depart_desc_parameter"}
            opens == {i \in 1..n : body[i] = SigParamOpen}
        IN /\ StackAfter(body, n) # Unbalanced
           /\ \A i \in opens :
                 /\ "sig-param-decl" \notin Range(StackAfter(body, i - 1))
                 /\ i < n
                 /\ body[i + 1] = HostVisitParameter
           /\ \A i \in 1..n :
                 /\ body[i] = HostVisitParameter => (i > 1 /\ body[i - 1] = SigParamOpen)
                 /\ body[i] = HostDepartParameter => (i < n /\ body[i + 1] = SpanClose)
                 /\ body[i] \in {HostVisitParameter, ParamText, HostDepartParameter} =>
                        "sig-param-decl" \in Range(StackAfter(body, i - 1))
           /\ ("sig-param-decl" \in Range(StackAfter(body, n))) <=> inParam
           /\ Cardinality(opens) = paramIdx + (IF inParam THEN 1 ELSE 0)

\* Two parameters have been rendered one after the other.
C7_Witness ==
    /\ pc = "depart_desc_parameterlist"
    /\ paramIdx >= 2
    /\ Count(body, SigParamOpen) >= 2
    /\ Last(body) = SpanClose

\* C8: visit_desc_parameterlist / depart_desc_parameterlist leave the buffer
\* as the host's hook made it except for its last entry, in which every "("
\* (on visit) or ")" (on depart) is replaced by the first or second element
\* of the node's "parens"; without "parens" the buffer is the host's.
C8_ParameterlistParens ==
    [][/\ (pc = "visit_desc_parameterlist" /\ pc' # pc) =>
            LET hosted == Append(body, HostVisitParameterlist(doc.hostStyle))
            IN /\ Len(body') = Len(hosted)
               /\ Front(body') = body
               /\ doc.parens.has =>
                     Last(body') = EveryReplaced(Last(hosted), "(", doc.parens.val[1])
               /\ ~doc.parens.has => body' = hosted
       /\ (pc = "depart_desc_parameterlist" /\ pc' # pc) =>
            LET hosted == Append(body, HostDepartParameterlist(doc.hostStyle))
            IN /\ Len(body') = Len(hosted)
               /\ Front(body') = body
               /\ doc.parens.has =>
                     Last(body') = EveryReplaced(Last(hosted), ")", doc.parens.val[2])
               /\ ~doc.parens.has => body' = hosted]_vars

\* A parameter list with parens ("[", "]") was rendered by a host whose
\* entries hold several parentheses of both kinds.
C8_Witness ==
    /\ pc = "done"
    /\ doc.kind = "api"
    /\ doc.parens.has
    /\ doc.parens.val = << <<"[">>, <<"]">> >>
    /\ doc.hostStyle = "mixed"
    /\ Last(body) = <<"]", "(", "<span>", "]", "</span>">>
    /\ <<"[", ")", "<span>", "[", "</span>">> \in Range(body)

\* C9: for a caption in a literal-block container the host's caption hooks
\* are not invoked and the mixin emits the div, the parent's figure number
\* and a span of class "caption-text filename" on visit, and the code
\* permalink of the parent, "</span>" and "</div>\n" on depart; for any other
\* caption the host's visit_caption output comes first, the span has class
\* "caption-text", and the host's depart_caption output comes last.
C9_CaptionMarkup ==
    [][LET literal == doc.caption.parentKind = "container" /\ doc.caption.literal_block
       IN /\ (pc = "visit_caption" /\ pc' # pc) =>
               /\ KeepsPrefix
               /\ IF literal
                  THEN Appended = <<DivOpen, add_fignumber("parent"),
                                    starttag("span", "caption-text filename")>>
                  ELSE /\ Len(Appended) >= 2
                       /\ Head(Appended) = HostVisitCaption
                       /\ Count(Appended, HostVisitCaption) = 1
                       /\ Last(Appended) = starttag("span", "caption-text")
          /\ (pc = "depart_caption" /\ pc' # pc) =>
               /\ KeepsPrefix
               /\ IF literal
                  THEN Appended = <<add_permalink_ref("parent", "Permalink to this code"),
                                    SpanClose, DivClose>>
                  ELSE /\ Len(Appended) >= 1
                       /\ Last(Appended) = HostDepartCaption
                       /\ Count(Appended, HostDepartCaption) = 1]_vars

\* The caption of a literal-block container was visited and departed.
C9_Witness ==
    /\ pc = "done"
    /\ doc.kind = "caption"
    /\ doc.caption.parentKind = "container"
    /\ doc.caption.literal_block
    /\ body = <<DivOpen, add_fignumber("parent"),
                starttag("span", "caption-text filename"), CaptionText,
                add_permalink_ref("parent", "Permalink to this code"),
                SpanClose, DivClose>>

\* C10: depart_caption requests at most one permalink: the code permalink of
\* the parent for a literal-block container, else the image permalink of the
\* parent for a figure, else the toctree permalink of the parent's parent
\* when the parent has "toctree", else none.
C10_PermalinkPriority ==
    [][(pc = "depart_caption" /\ pc' # pc) =>
         LET c == doc.caption
             requested == SelectSeq(Appended, IsPermalink)
         IN /\ Len(requested) <= 1
            /\ requested =
                 IF c.parentKind = "container" /\ c.literal_block
                 THEN <<add_permalink_ref("parent", "Permalink to this code")>>
                 ELSE IF c.parentKind = "figure"
                 THEN <<add_permalink_ref("parent", "Permalink to this image")>>
                 ELSE IF c.toctree
                 THEN <<add_permalink_ref("parent.parent", "Permalink to this toctree")>>
                 ELSE <<>>]_vars

\* The caption of a figure that also has "toctree" set was departed and got
\* the image permalink only.
C10_Witness ==
    /\ pc = "done"
    /\ doc.kind = "caption"
    /\ doc.caption.parentKind = "figure"
    /\ doc.caption.toctree
    /\ SelectSeq(body, IsPermalink) =
         <<add_permalink_ref("parent", "Permalink to this image")>>

====
